---- MODULE Spec2Model ----
(***************************************************************************)
(* A* search of src/main.py (algoritmo_a_estrela and its helpers) as a     *)
(* state machine: one state per pass of the main loop, the grid drawn from *)
(* bounded families of grids; the display of the found path               *)
(* (exibir_labirinto_com_caminho); and the loop of the curses viewer        *)
(* (src/view_curses.py, _animate), one state per pass of its loop.          *)
(*                                                                         *)
(* Positions keep Python's 0-based (linha, coluna) pairs; the grid is a    *)
(* sequence of rows, so cell (i, j) is labirinto[i+1][j+1].  None is the   *)
(* empty tuple.  A Node is a record; its parent is <<>> (None) or the      *)
(* one-element tuple holding the parent node.                              *)
(***************************************************************************)
EXTENDS Integers, Sequences, FiniteSets, TLC

\* Bounds of the grid families drawn by Init: rows, columns, and walls of a
\* valid grid.
MaxRows == 2
MaxCols == 3
MaxParedes == 2

\* Bound of the viewer's inputs: positions of the path it is given.
MaxPath == 5

VARIABLES labirinto, estado, stdout, pos_inicial, pos_final, fila_aberta,
          conjunto_aberto, conjunto_fechado, no_atual, resultado,
          labirinto_visual,
          path, idx, delay_ms, key, animacao

\* the locals of _animate and where its loop stands
varsAnim == <<path, idx, delay_ms, key, animacao>>

vars == <<labirinto, estado, stdout, pos_inicial, pos_final, fila_aberta,
          conjunto_aberto, conjunto_fechado, no_atual, resultado,
          labirinto_visual, path, idx, delay_ms, key, animacao>>

None == <<>>

----------------------------------------------------------------------------
\* Grid access

Celula(lab, p) == lab[p[1] + 1][p[2] + 1]

\* every (i, j) that indexes an existing cell of the (possibly ragged) grid
Posicoes(lab) ==
    UNION { { <<i - 1, j - 1>> : j \in 1..Len(lab[i]) } : i \in 1..Len(lab) }

PosicoesDe(lab, simbolo) == { p \in Posicoes(lab) : Celula(lab, p) = simbolo }

\* the last position of P in row-major order: the scan overwrites earlier finds
Ultima(P) ==
    CHOOSE p \in P : \A q \in P :
        q[1] < p[1] \/ (q[1] = p[1] /\ q[2] <= p[2])

----------------------------------------------------------------------------
\* Node

Node(position, g_cost, h_cost, parent) ==
    [position |-> position, g_cost |-> g_cost, h_cost |-> h_cost,
     f_cost |-> g_cost + h_cost, parent |-> parent]

\* the comparison inverted
LtInvertido(self, other) == self.f_cost > other.f_cost

\* Node.__lt__
Lt(self, other) == self.f_cost < other.f_cost

Abs(x) == IF x < 0 THEN -x ELSE x

\* Python's min and max of two numbers
Menor(a, b) == IF a < b THEN a ELSE b

Maior(a, b) == IF a > b THEN a ELSE b

heuristica_manhattan(pos_atual, pos_fim) ==
    Abs(pos_atual[1] - pos_fim[1]) + Abs(pos_atual[2] - pos_fim[2])

encontrar_posicoes(lab) ==
    LET s == PosicoesDe(lab, "S")
        e == PosicoesDe(lab, "E")
    IN  << IF s = {} THEN None ELSE Ultima(s),
           IF e = {} THEN None ELSE Ultima(e) >>

----------------------------------------------------------------------------
\* obter_vizinhos

movimentos == << <<-1, 0>>, <<1, 0>>, <<0, -1>>, <<0, 1>> >>

\* the candidates that pass the bounds test, in the order of movimentos;
\* colunas is the length of row 0 for every row
DentroDosLimites(posicao, lab) ==
    LET linhas == Len(lab)
        colunas == Len(lab[1])
        cand == [k \in 1..4 |-> <<posicao[1] + movimentos[k][1],
                                  posicao[2] + movimentos[k][2]>>]
        ok(p) == 0 <= p[1] /\ p[1] < linhas /\ 0 <= p[2] /\ p[2] < colunas
    IN  SelectSeq(cand, ok)

\* labirinto[nova_linha][nova_coluna] raises IndexError when the row is
\* shorter than row 0
IndexErrorEm(posicao, lab) ==
    \E k \in 1..Len(DentroDosLimites(posicao, lab)) :
        LET p == DentroDosLimites(posicao, lab)[k]
        IN  p[2] >= Len(lab[p[1] + 1])

\* the obstacle test left out
obter_vizinhos_sem_obstaculo(posicao, lab) == DentroDosLimites(posicao, lab)

obter_vizinhos(posicao, lab) ==
    LET livre(p) == Celula(lab, p) # "1"
    IN  SelectSeq(DentroDosLimites(posicao, lab), livre)

----------------------------------------------------------------------------
\* reconstruir_caminho

RECURSIVE Ancestrais(_)
\* the positions appended while following the parents: goal first
Ancestrais(no) ==
    IF no.parent = None THEN <<no.position>>
    ELSE <<no.position>> \o Ancestrais(no.parent[1])

Reverso(s) == [k \in 1..Len(s) |-> s[Len(s) + 1 - k]]

\* caminho.reverse() left out
reconstruir_caminho_sem_reverse(no_final) == Ancestrais(no_final)

\* the walk stopped at the node without parent, which is not appended
reconstruir_caminho_sem_inicio(no_final) ==
    LET c == Reverso(Ancestrais(no_final)) IN SubSeq(c, 2, Len(c))

reconstruir_caminho(no_final) == Reverso(Ancestrais(no_final))

----------------------------------------------------------------------------
\* heapq on a list of Nodes; heap index k (0-based) is heap[k + 1].  Every
\* comparison is Node.__lt__.

RECURSIVE SiftdownLoop(_, _, _, _)
SiftdownLoop(heap, startpos, pos, newitem) ==
    IF pos > startpos
    THEN LET parentpos == (pos - 1) \div 2
             parent == heap[parentpos + 1]
         IN  IF Lt(newitem, parent)
             THEN SiftdownLoop([heap EXCEPT ![pos + 1] = parent],
                               startpos, parentpos, newitem)
             ELSE [heap EXCEPT ![pos + 1] = newitem]
    ELSE [heap EXCEPT ![pos + 1] = newitem]

\* heapq._siftdown
siftdown(heap, startpos, pos) ==
    SiftdownLoop(heap, startpos, pos, heap[pos + 1])

RECURSIVE SiftupLoop(_, _, _, _)
\* moves the smaller child up until a leaf is reached, then puts newitem there
\* and sifts it down from startpos
SiftupLoop(heap, startpos, pos, newitem) ==
    LET endpos == Len(heap)
        leftpos == 2 * pos + 1
        rightpos == leftpos + 1
        childpos == IF rightpos < endpos
                       /\ ~Lt(heap[leftpos + 1], heap[rightpos + 1])
                    THEN rightpos ELSE leftpos
    IN  IF leftpos < endpos
        THEN SiftupLoop([heap EXCEPT ![pos + 1] = heap[childpos + 1]],
                        startpos, childpos, newitem)
        ELSE siftdown([heap EXCEPT ![pos + 1] = newitem], startpos, pos)

\* heapq._siftup
siftup(heap, pos) == SiftupLoop(heap, pos, pos, heap[pos + 1])

heappush(heap, item) ==
    siftdown(Append(heap, item), 0, Len(heap))

\* the item is returned but stays in the heap
heappop_sem_remover(heap) == [item |-> heap[1], heap |-> heap]

\* the popped item, and the heap left behind
heappop(heap) ==
    LET lastelt == heap[Len(heap)]
        resto == SubSeq(heap, 1, Len(heap) - 1)
    IN  IF resto # <<>>
        THEN [item |-> heap[1],
              heap |-> siftup([resto EXCEPT ![1] = lastelt], 0)]
        ELSE [item |-> lastelt, heap |-> resto]

RECURSIVE HeapifyDe(_, _)
\* for i in reversed(range(n // 2)): _siftup(x, i), from index i downwards
HeapifyDe(x, i) == IF i < 0 THEN x ELSE HeapifyDe(siftup(x, i), i - 1)

heapify(x) == HeapifyDe(x, (Len(x) \div 2) - 1)

----------------------------------------------------------------------------
\* the body of "for pos_vizinho in obter_vizinhos(...)"

\* g_cost_vizinho = no_atual.g_cost + 1: every move costs 1
custo_movimento == 1

\* index (1-based) of the first node of the queue at position pos, 0 if none
IndiceNaFila(fila, pos) ==
    IF \E i \in 1..Len(fila) : fila[i].position = pos
    THEN CHOOSE i \in 1..Len(fila) :
            /\ fila[i].position = pos
            /\ \A k \in 1..(i - 1) : fila[k].position # pos
    ELSE 0

\* the skip of explored positions (line 148) left out
Relaxar_sem_fechado(est, pos_vizinho, no, fechado, pos_fim) ==
    LET no_vizinho == Node(pos_vizinho, no.g_cost + custo_movimento,
                           heuristica_manhattan(pos_vizinho, pos_fim), <<no>>)
    IN  IF pos_vizinho \in est.aberto
        THEN LET i == IndiceNaFila(est.fila, pos_vizinho)
             IN  IF i > 0 /\ no_vizinho.g_cost < est.fila[i].g_cost
                 THEN [est EXCEPT
                         !.fila = heapify([est.fila EXCEPT ![i] = no_vizinho])]
                 ELSE est
        ELSE [fila |-> heappush(est.fila, no_vizinho),
              aberto |-> est.aberto \cup {pos_vizinho}]

\* line 178, conjunto_aberto.add, left out
Relaxar_sem_add(est, pos_vizinho, no, fechado, pos_fim) ==
    IF pos_vizinho \in fechado THEN est
    ELSE
      LET no_vizinho == Node(pos_vizinho, no.g_cost + custo_movimento,
                             heuristica_manhattan(pos_vizinho, pos_fim), <<no>>)
      IN  IF pos_vizinho \in est.aberto
          THEN LET i == IndiceNaFila(est.fila, pos_vizinho)
               IN  IF i > 0 /\ no_vizinho.g_cost < est.fila[i].g_cost
                   THEN [est EXCEPT
                           !.fila = heapify([est.fila EXCEPT ![i] = no_vizinho])]
                   ELSE est
          ELSE [est EXCEPT !.fila = heappush(est.fila, no_vizinho)]

\* lines 164-174 left out: a queued position is never given a better node
Relaxar_sem_substituir(est, pos_vizinho, no, fechado, pos_fim) ==
    IF pos_vizinho \in fechado \/ pos_vizinho \in est.aberto THEN est
    ELSE [fila |-> heappush(est.fila,
                      Node(pos_vizinho, no.g_cost + custo_movimento,
                           heuristica_manhattan(pos_vizinho, pos_fim), <<no>>)),
          aberto |-> est.aberto \cup {pos_vizinho}]

\* one neighbour: est is [fila, aberto]
Relaxar(est, pos_vizinho, no, fechado, pos_fim) ==
    IF pos_vizinho \in fechado THEN est
    ELSE
      LET no_vizinho == Node(pos_vizinho, no.g_cost + custo_movimento,
                             heuristica_manhattan(pos_vizinho, pos_fim), <<no>>)
      IN  IF pos_vizinho \in est.aberto
          THEN LET i == IndiceNaFila(est.fila, pos_vizinho)
               IN  IF i > 0 /\ no_vizinho.g_cost < est.fila[i].g_cost
                   THEN [est EXCEPT
                           !.fila = heapify([est.fila EXCEPT ![i] = no_vizinho])]
                   ELSE est
          ELSE [fila |-> heappush(est.fila, no_vizinho),
                aberto |-> est.aberto \cup {pos_vizinho}]

RECURSIVE ExplorarVizinhos(_, _, _, _, _, _)
\* the neighbours vizinhos[k..], in order (e is the state after vizinhos[k],
\* bound as a value so that it is computed once)
ExplorarVizinhos(est, vizinhos, k, no, fechado, pos_fim) ==
    IF k > Len(vizinhos) THEN est
    ELSE CHOOSE r \in { ExplorarVizinhos(e, vizinhos, k + 1, no, fechado, pos_fim) :
                           e \in {Relaxar(est, vizinhos[k], no, fechado, pos_fim)} } : TRUE

----------------------------------------------------------------------------
\* exibir_labirinto_com_caminho

RECURSIVE Marcar(_, _, _)
\* "for pos in caminho", from caminho[k] on: '*' on every cell that is not
\* 'S' or 'E'
Marcar(visual, caminho, k) ==
    IF k > Len(caminho) THEN visual
    ELSE LET pos == caminho[k]
         IN  Marcar(IF Celula(visual, pos) \notin {"S", "E"}
                    THEN [visual EXCEPT ![pos[1] + 1][pos[2] + 1] = "*"]
                    ELSE visual,
                    caminho, k + 1)

\* labirinto_visual = labirinto: the marks land in the caller's rows
exibir_sem_copia(lab, caminho) ==
    [labirinto |-> Marcar(lab, caminho, 1),
     labirinto_visual |-> Marcar(lab, caminho, 1)]

\* the caller's grid after the call, and the rows that are printed
exibir_labirinto_com_caminho(lab, caminho) ==
    [labirinto |-> lab, labirinto_visual |-> Marcar(lab, caminho, 1)]

----------------------------------------------------------------------------
\* The grids Init draws from

criar_labirinto_exemplo ==
    << <<"S", "0", "1", "0", "0">>,
       <<"0", "0", "1", "0", "1">>,
       <<"0", "0", "0", "0", "0">>,
       <<"1", "0", "0", "E", "1">> >>

\* the open 4x4 grid, S and E in opposite corners: the smallest grid on which
\* a queued node is replaced by a cheaper one
labirinto_4x4 ==
    << <<"S", "0", "0", "0">>,
       <<"0", "0", "0", "0">>,
       <<"0", "0", "0", "0">>,
       <<"0", "0", "0", "E">> >>

\* a 4x4 grid whose E is walled off, so that every reachable cell is popped:
\* the node queued for (3,1) is replaced by a cheaper one before it is popped
labirinto_4x4_sem_saida ==
    << <<"S", "0", "1", "E">>,
       <<"0", "0", "0", "1">>,
       <<"0", "1", "0", "0">>,
       <<"0", "0", "0", "0">> >>

\* symbols algoritmo_a_estrela has no case for: terrain digits and the
\* viewer's wall
OutrosSimbolos == {"2", "9", "#"}

\* rows of the given lengths; simb maps some (1-based) cells to a symbol, the
\* other cells are free
Grade(comprimentos, simb) ==
    [i \in 1..Len(comprimentos) |->
        [j \in 1..comprimentos[i] |->
            IF <<i, j>> \in DOMAIN simb THEN simb[<<i, j>>] ELSE "0"]]

CelulasDe(comprimentos) ==
    UNION { { <<i, j>> : j \in 1..comprimentos[i] } : i \in 1..Len(comprimentos) }

Formas == UNION { [1..r -> 0..MaxCols] : r \in 1..MaxRows }

Retangulares == { f \in Formas : f[1] > 0 /\ \A i \in 1..Len(f) : f[i] = f[1] }

\* the symbol map placing S at s, E at e and simbolo on the cells of W
Marcas(s, e, W, simbolo) ==
    [c \in {s, e} \cup W |-> IF c = s THEN "S" ELSE IF c = e THEN "E" ELSE simbolo]

\* one S, one E, up to MaxParedes walls
GradeValida(lab) ==
    \E f \in Retangulares :
      \E s \in CelulasDe(f) : \E e \in CelulasDe(f) \ {s} :
        \E W \in { X \in SUBSET (CelulasDe(f) \ {s, e}) : Cardinality(X) <= MaxParedes } :
            lab = Grade(f, Marcas(s, e, W, "1"))

\* one S, one E and one cell of OutrosSimbolos, no walls
GradeOutrosSimbolos(lab) ==
    \E f \in Retangulares :
      \E s \in CelulasDe(f) : \E e \in CelulasDe(f) \ {s} :
        \E c \in CelulasDe(f) \ {s, e} : \E o \in OutrosSimbolos :
            lab = Grade(f, Marcas(s, e, {c}, o))

\* up to two S and up to two E, no walls
GradeMarcadores(lab) ==
    \E f \in Retangulares :
      \E S \in { X \in SUBSET CelulasDe(f) : Cardinality(X) <= 2 } :
        \E E \in { X \in SUBSET (CelulasDe(f) \ S) : Cardinality(X) <= 2 } :
            lab = Grade(f, [c \in S \cup E |-> IF c \in S THEN "S" ELSE "E"])

\* rows of differing lengths, one S, one E, no walls
GradeIrregular(lab) ==
    \E f \in Formas \ Retangulares :
      \E s \in CelulasDe(f) : \E e \in CelulasDe(f) \ {s} :
            lab = Grade(f, Marcas(s, e, {}, "1"))

----------------------------------------------------------------------------
\* algoritmo_a_estrela

\* run_curses_animation's default delay_ms
delay_padrao == 120

\* the viewer has not been started
AnimacaoParada ==
    /\ path = <<>>
    /\ idx = 0
    /\ delay_ms = delay_padrao
    /\ key = None
    /\ animacao = "stopped"

Init ==
    /\ \/ GradeValida(labirinto)
       \/ GradeOutrosSimbolos(labirinto)
       \/ GradeMarcadores(labirinto)
       \/ GradeIrregular(labirinto)
       \/ labirinto = criar_labirinto_exemplo
       \/ labirinto = labirinto_4x4
       \/ labirinto = labirinto_4x4_sem_saida
    /\ AnimacaoParada
    /\ labirinto_visual = None
    /\ estado = "validando"
    /\ stdout = ""
    /\ pos_inicial = None
    /\ pos_final = None
    /\ fila_aberta = <<>>
    /\ conjunto_aberto = {}
    /\ conjunto_fechado = {}
    /\ no_atual = None
    /\ resultado = [tipo |-> "pendente", caminho |-> <<>>]

RetornoNone == [tipo |-> "None", caminho |-> <<>>]

\* lines 107-115: S or E missing: print the error and return None
ValidacaoFalha ==
    /\ estado = "validando"
    /\ LET pos == encontrar_posicoes(labirinto)
       IN  /\ pos[1] = None \/ pos[2] = None
           /\ pos_inicial' = pos[1]
           /\ pos_final' = pos[2]
           /\ stdout' = IF pos[1] = None
                        THEN "Erro: Ponto inicial 'S' nao encontrado no labirinto!"
                        ELSE "Erro: Ponto final 'E' nao encontrado no labirinto!"
    /\ estado' = "invalid"
    /\ resultado' = RetornoNone
    /\ UNCHANGED <<labirinto, fila_aberta, conjunto_aberto, conjunto_fechado, no_atual>>
    /\ UNCHANGED <<labirinto_visual, varsAnim>>

\* lines 107-130: both found: push the start node
Iniciar ==
    /\ estado = "validando"
    /\ LET pos == encontrar_posicoes(labirinto)
       IN  /\ pos[1] # None /\ pos[2] # None
           /\ pos_inicial' = pos[1]
           /\ pos_final' = pos[2]
           /\ fila_aberta' = heappush(<<>>, Node(pos[1], 0,
                                 heuristica_manhattan(pos[1], pos[2]), None))
           /\ conjunto_aberto' = {pos[1]}
    /\ estado' = "searching"
    /\ UNCHANGED <<labirinto, stdout, conjunto_fechado, no_atual, resultado>>
    /\ UNCHANGED <<labirinto_visual, varsAnim>>

\* lines 133-140: the goal is popped
RetornarCaminho ==
    /\ estado = "searching"
    /\ fila_aberta # <<>>
    /\ LET pop == heappop(fila_aberta)
       IN  /\ pop.item.position = pos_final
           /\ no_atual' = <<pop.item>>
           /\ fila_aberta' = pop.heap
           /\ conjunto_aberto' = conjunto_aberto \ {pop.item.position}
           /\ resultado' = [tipo |-> "caminho",
                            caminho |-> reconstruir_caminho(pop.item)]
    /\ estado' = "succeeded"
    /\ UNCHANGED <<labirinto, stdout, pos_inicial, pos_final, conjunto_fechado>>
    /\ UNCHANGED <<labirinto_visual, varsAnim>>

\* lines 133-178: another node is popped, closed and its neighbours relaxed
Expandir ==
    /\ estado = "searching"
    /\ fila_aberta # <<>>
    /\ \E pop \in {heappop(fila_aberta)} :
         LET no == pop.item
             fechado == conjunto_fechado \cup {no.position}
         IN  /\ no.position # pos_final
             /\ ~IndexErrorEm(no.position, labirinto)
             /\ \E est \in {ExplorarVizinhos(
                      [fila |-> pop.heap, aberto |-> conjunto_aberto \ {no.position}],
                      obter_vizinhos(no.position, labirinto), 1, no, fechado, pos_final)} :
                   /\ fila_aberta' = est.fila
                   /\ conjunto_aberto' = est.aberto
             /\ no_atual' = <<no>>
             /\ conjunto_fechado' = fechado
    /\ UNCHANGED <<labirinto, estado, stdout, pos_inicial, pos_final, resultado>>
    /\ UNCHANGED <<labirinto_visual, varsAnim>>

\* lines 133-146 and 77: obter_vizinhos indexes past the end of a short row
ErroDeIndice ==
    /\ estado = "searching"
    /\ fila_aberta # <<>>
    /\ LET pop == heappop(fila_aberta)
           no == pop.item
       IN  /\ no.position # pos_final
           /\ IndexErrorEm(no.position, labirinto)
           /\ no_atual' = <<no>>
           /\ conjunto_fechado' = conjunto_fechado \cup {no.position}
           /\ fila_aberta' = pop.heap
           /\ conjunto_aberto' = conjunto_aberto \ {no.position}
    /\ estado' = "crashed"
    /\ resultado' = [tipo |-> "IndexError", caminho |-> <<>>]
    /\ UNCHANGED <<labirinto, stdout, pos_inicial, pos_final>>
    /\ UNCHANGED <<labirinto_visual, varsAnim>>

\* lines 133 and 181: the queue is empty
Esgotar ==
    /\ estado = "searching"
    /\ fila_aberta = <<>>
    /\ estado' = "exhausted"
    /\ resultado' = RetornoNone
    /\ UNCHANGED <<labirinto, stdout, pos_inicial, pos_final, fila_aberta,
                   conjunto_aberto, conjunto_fechado, no_atual>>
    /\ UNCHANGED <<labirinto_visual, varsAnim>>

\* main, line 308: a path was returned and is displayed
Exibir ==
    /\ estado = "succeeded"
    /\ labirinto_visual = None
    /\ LET exibido == exibir_labirinto_com_caminho(labirinto, resultado.caminho)
       IN  /\ labirinto' = exibido.labirinto
           /\ labirinto_visual' = exibido.labirinto_visual
    /\ UNCHANGED <<estado, stdout, pos_inicial, pos_final, fila_aberta,
                   conjunto_aberto, conjunto_fechado, no_atual, resultado>>
    /\ UNCHANGED varsAnim

Next ==
    \/ ValidacaoFalha
    \/ Iniciar
    \/ RetornarCaminho
    \/ Expandir
    \/ ErroDeIndice
    \/ Esgotar
    \/ Exibir

Spec == Init /\ [][Next]_vars

\* the call runs to its end: nothing in the loop waits or yields
FairSpec == Spec /\ WF_vars(Next)

----------------------------------------------------------------------------
\* _animate (src/view_curses.py): one action per branch of the key dispatch,
\* each a whole pass of the loop (draw, getch, branch).  Drawing reads lab,
\* path and idx and writes none of them.

\* limits and step of delay_ms
DelayMin == 10
DelayMax == 1000
PassoDelay == 10

\* getch's return on timeout
ERR == "ERR"

TeclasSair == {"q"}
TeclasMais == {"+", "="}
TeclasMenos == {"-", "_"}
TeclasProximo == {"KEY_RIGHT", "n"}
TeclasAnterior == {"KEY_LEFT", "p"}
\* keys without a branch of their own
OutrasTeclas == {"x", " "}

\* delay_ms - 10 without the max
acelerar_sem_limite(d) == d - PassoDelay

\* line 120
acelerar(d) == Maior(DelayMin, d - PassoDelay)

\* line 123
desacelerar(d) == Menor(DelayMax, d + PassoDelay)

\* line 126
proximo(i, caminho) == Menor(Len(caminho) - 1, i + 1)

\* idx - 1 without the max
anterior_sem_limite(i) == i - 1

\* line 128
anterior(i) == Maior(0, i - 1)

\* the last position is never shown: the loop leaves one position early
ramo_else_sai_antes(i, caminho) ==
    IF i < Len(caminho) - 2 THEN [idx |-> i + 1, sai |-> FALSE]
    ELSE [idx |-> i, sai |-> TRUE]

\* lines 130-134: the new idx, and whether the loop is left
ramo_else(i, caminho) ==
    IF i < Len(caminho) - 1 THEN [idx |-> i + 1, sai |-> FALSE]
    ELSE [idx |-> i, sai |-> TRUE]

\* the paths the viewer is given: up to MaxPath positions along a row
Caminhos == { [k \in 1..n |-> <<0, k - 1>>] : n \in 0..MaxPath }

DelaysIniciais ==
    {DelayMin, DelayMin + 5, delay_padrao, DelayMax - 5, DelayMax}

\* lines 97-103: the loop is about to run its first pass
InitAnim ==
    /\ labirinto = << [j \in 1..MaxPath |-> "0"] >>
    /\ labirinto_visual = None
    /\ estado = "validando"
    /\ stdout = ""
    /\ pos_inicial = None
    /\ pos_final = None
    /\ fila_aberta = <<>>
    /\ conjunto_aberto = {}
    /\ conjunto_fechado = {}
    /\ no_atual = None
    /\ resultado = [tipo |-> "pendente", caminho |-> <<>>]
    /\ path \in Caminhos
    /\ idx = 0
    /\ delay_ms \in DelaysIniciais
    /\ key = None
    /\ animacao = "running"

varsBusca == <<labirinto, estado, stdout, pos_inicial, pos_final, fila_aberta,
               conjunto_aberto, conjunto_fechado, no_atual, resultado,
               labirinto_visual>>

\* lines 117-118
Sair ==
    /\ animacao = "running"
    /\ key' \in TeclasSair
    /\ animacao' = "ended"
    /\ UNCHANGED <<path, idx, delay_ms, varsBusca>>

\* lines 119-121
Acelerar ==
    /\ animacao = "running"
    /\ key' \in TeclasMais
    /\ delay_ms' = acelerar(delay_ms)
    /\ UNCHANGED <<path, idx, animacao, varsBusca>>

\* lines 122-124
Desacelerar ==
    /\ animacao = "running"
    /\ key' \in TeclasMenos
    /\ delay_ms' = desacelerar(delay_ms)
    /\ UNCHANGED <<path, idx, animacao, varsBusca>>

\* lines 125-126
Proximo ==
    /\ animacao = "running"
    /\ key' \in TeclasProximo
    /\ idx' = proximo(idx, path)
    /\ UNCHANGED <<path, delay_ms, animacao, varsBusca>>

\* lines 127-128
Anterior ==
    /\ animacao = "running"
    /\ key' \in TeclasAnterior
    /\ idx' = anterior(idx)
    /\ UNCHANGED <<path, delay_ms, animacao, varsBusca>>

\* lines 129-134: getch returned tecla, which has no branch of its own
PassoAutomatico(tecla) ==
    /\ animacao = "running"
    /\ key' = tecla
    /\ LET r == ramo_else(idx, path)
       IN  /\ idx' = r.idx
           /\ animacao' = IF r.sai THEN "ended" ELSE "running"
    /\ UNCHANGED <<path, delay_ms, varsBusca>>

\* every getch times out
Tique == PassoAutomatico(ERR)

OutraTecla == \E tecla \in OutrasTeclas : PassoAutomatico(tecla)

NextAnim ==
    \/ Sair
    \/ Acelerar
    \/ Desacelerar
    \/ Proximo
    \/ Anterior
    \/ Tique
    \/ OutraTecla

SpecAnim == InitAnim /\ [][NextAnim]_vars

\* no key is ever pressed; getch returns after delay_ms, so the loop goes on
SpecSemTecla == InitAnim /\ [][Tique]_vars /\ WF_vars(Tique)

----------------------------------------------------------------------------
\* Reference definitions for the properties: independent of the search

Retangular(lab) ==
    /\ Len(lab) > 0
    /\ Len(lab[1]) > 0
    /\ \A i \in 1..Len(lab) : Len(lab[i]) = Len(lab[1])

UmSeUmE(lab) ==
    /\ Cardinality(PosicoesDe(lab, "S")) = 1
    /\ Cardinality(PosicoesDe(lab, "E")) = 1

Valida(lab) == Retangular(lab) /\ UmSeUmE(lab)

Simbolos(lab) == { Celula(lab, p) : p \in Posicoes(lab) }

PosS(lab) == CHOOSE p \in PosicoesDe(lab, "S") : TRUE
PosE(lab) == CHOOSE p \in PosicoesDe(lab, "E") : TRUE

Adjacentes(p, q) == Abs(p[1] - q[1]) + Abs(p[2] - q[2]) = 1

Terminou == estado \in {"invalid", "succeeded", "exhausted", "crashed"}

RECURSIVE Camadas(_, _, _, _, _)
\* breadth-first layers over the cells of livres: the number of steps to
\* destino, -1 when it is never reached
Camadas(livres, frente, vistos, destino, d) ==
    IF destino \in frente THEN d
    ELSE LET prox == { q \in livres \ vistos : \E p \in frente : Adjacentes(p, q) }
         IN  IF prox = {} THEN -1
             ELSE Camadas(livres, prox, vistos \cup prox, destino, d + 1)

\* fewest steps from S to E through cells whose symbol is not in bloqueio
Distancia(lab, bloqueio) ==
    Camadas({ p \in Posicoes(lab) : Celula(lab, p) \notin bloqueio },
            {PosS(lab)}, {PosS(lab)}, PosE(lab), 0)

\* the cost the search has charged for the steps of a path
CustoCobrado(caminho) == (Len(caminho) - 1) * custo_movimento

caminho_final == resultado.caminho

\* C1: on a valid grid whose E can be reached from S (through cells other than
\* '1'), the search returns a path from the S position to the E position whose
\* consecutive positions are 4-adjacent cells of the grid, and the g_cost of
\* the goal node is the sum of the costs of its steps.
C1_CaminhoBemFormado ==
    (Terminou /\ Valida(labirinto) /\ Distancia(labirinto, {"1"}) >= 0) =>
        /\ estado = "succeeded"
        /\ resultado.tipo = "caminho"
        /\ Len(caminho_final) >= 1
        /\ caminho_final[1] = PosS(labirinto)
        /\ caminho_final[Len(caminho_final)] = PosE(labirinto)
        /\ \A k \in 1..Len(caminho_final) : caminho_final[k] \in Posicoes(labirinto)
        /\ \A k \in 1..(Len(caminho_final) - 1) :
               Adjacentes(caminho_final[k], caminho_final[k + 1])
        /\ no_atual[1].position = PosE(labirinto)
        /\ no_atual[1].g_cost = CustoCobrado(caminho_final)

\* a path has been returned on a valid grid where a wall forces a detour
C1_Witness ==
    /\ Valida(labirinto)
    /\ estado = "succeeded"
    /\ "1" \in Simbolos(labirinto)
    /\ Len(caminho_final) - 1 > heuristica_manhattan(PosS(labirinto), PosE(labirinto))

\* C2: on a valid grid of S, E, '0' and '1' cells whose E can be reached, the
\* returned path has the fewest steps of all 4-directional paths from S to E
\* through cells other than '1' (the breadth-first reference).
C2_CaminhoMinimo ==
    ( /\ Terminou
      /\ Valida(labirinto)
      /\ Simbolos(labirinto) \subseteq {"S", "E", "0", "1"}
      /\ Distancia(labirinto, {"1"}) >= 0 ) =>
        /\ resultado.tipo = "caminho"
        /\ Len(caminho_final) - 1 = Distancia(labirinto, {"1"})
        /\ no_atual[1].g_cost = Distancia(labirinto, {"1"})

\* a minimal path longer than the Manhattan distance has been returned after
\* at least three expansions
C2_Witness ==
    /\ Valida(labirinto)
    /\ Simbolos(labirinto) \subseteq {"S", "E", "0", "1"}
    /\ estado = "succeeded"
    /\ Len(caminho_final) - 1 = Distancia(labirinto, {"1"})
    /\ Len(caminho_final) - 1 > heuristica_manhattan(PosS(labirinto), PosE(labirinto))
    /\ Cardinality(conjunto_fechado) >= 3

\* terrain weight of a cell symbol: its digit for '2'..'9', 1 otherwise
Peso(simbolo) ==
    CASE simbolo = "2" -> 2 [] simbolo = "3" -> 3 [] simbolo = "4" -> 4
      [] simbolo = "5" -> 5 [] simbolo = "6" -> 6 [] simbolo = "7" -> 7
      [] simbolo = "8" -> 8 [] simbolo = "9" -> 9 [] OTHER -> 1

Pesados == {"2", "3", "4", "5", "6", "7", "8", "9"}

RECURSIVE CustoPonderado(_, _)
\* sum over the steps of a path of the weight of the cell stepped onto
CustoPonderado(lab, caminho) ==
    IF Len(caminho) <= 1 THEN 0
    ELSE Peso(Celula(lab, caminho[Len(caminho)]))
            + CustoPonderado(lab, SubSeq(caminho, 1, Len(caminho) - 1))

RECURSIVE MenoresCustos(_, _, _, _)
\* n rounds of relaxation of every cell of livres from its 4 neighbours
MenoresCustos(lab, livres, d, n) ==
    IF n = 0 THEN d
    ELSE MenoresCustos(lab, livres,
            [p \in livres |->
                LET viz == { q \in livres : Adjacentes(p, q) }
                    porViz == { d[q] + Peso(Celula(lab, p)) : q \in viz }
                IN  IF porViz = {} THEN d[p]
                    ELSE Menor(d[p], CHOOSE m \in porViz : \A o \in porViz : m <= o)],
            n - 1)

\* least weighted cost of a path from S to E through cells whose symbol is not
\* in bloqueio (10 per cell of the grid stands for no path)
CustoMinimo(lab, bloqueio) ==
    LET livres == { p \in Posicoes(lab) : Celula(lab, p) \notin bloqueio }
        inf == 10 * Cardinality(Posicoes(lab))
        d0 == [p \in livres |-> IF p = PosS(lab) THEN 0 ELSE inf]
    IN  MenoresCustos(lab, livres, d0, Cardinality(livres))[PosE(lab)]

\* C3: a step costs the terrain weight of the cell stepped onto, so where every
\* fewest-step route crosses a weighted cell and a longer route around it is
\* the cheapest route, the returned path has that least weighted cost and the
\* goal's g_cost is the weighted cost of the returned path.
C3_RotaDeMenorCustoPonderado ==
    ( /\ estado = "succeeded"
      /\ Valida(labirinto)
      /\ "#" \notin Simbolos(labirinto)
      /\ Distancia(labirinto, {"1"} \cup Pesados) > Distancia(labirinto, {"1"})
      /\ CustoMinimo(labirinto, {"1"}) = Distancia(labirinto, {"1"} \cup Pesados) ) =>
        /\ CustoPonderado(labirinto, caminho_final) = CustoMinimo(labirinto, {"1"})
        /\ no_atual[1].g_cost = CustoPonderado(labirinto, caminho_final)

\* C4: no position of a returned path holds an obstacle symbol, '1' or '#'.
C4_SemObstaculoNoCaminho ==
    (estado = "succeeded") =>
        \A k \in 1..Len(caminho_final) :
            Celula(labirinto, caminho_final[k]) \notin {"1", "#"}

\* C5: on a valid grid whose E cannot be reached from S (every route is
\* blocked by '1' cells or the borders) the search ends exhausted and returns
\* None: no error, no path.
C5_SemCaminhoRetornaNone ==
    (Terminou /\ Valida(labirinto) /\ Distancia(labirinto, {"1"}) = -1) =>
        /\ estado = "exhausted"
        /\ resultado = RetornoNone
        /\ fila_aberta = <<>>

\* the search has expanded cells around S and run out of them
C5_Witness ==
    /\ Valida(labirinto)
    /\ estado = "exhausted"
    /\ resultado = RetornoNone
    /\ Distancia(labirinto, {"1"}) = -1
    /\ Cardinality(conjunto_fechado) >= 2

\* C6: a grid with 0 or with 2 or more S (or E) is rejected before the search:
\* the main loop is never entered and no path is returned.
C6_MarcadoresRejeitados ==
    ~UmSeUmE(labirinto) =>
        /\ estado \in {"validando", "invalid"}
        /\ resultado.tipo # "caminho"

\* C7: what is returned for a malformed grid (S or E missing) differs from
\* what is returned when a valid grid has no path (line 181).
C7_FalhaDistintaDeSemCaminho ==
    (estado = "invalid") => resultado # RetornoNone

\* C8: a grid whose rows differ in length is rejected before the search, which
\* therefore never indexes past the end of a row.
C8_IrregularRejeitada ==
    (Len(labirinto) > 0 /\ ~Retangular(labirinto)) =>
        /\ estado \in {"validando", "invalid"}
        /\ resultado.tipo # "IndexError"

\* C10: on the example grid the search returns a path of 7 positions from
\* (0,0) to (3,3) with total cost 6.
C10_Exemplo ==
    (Terminou /\ labirinto = criar_labirinto_exemplo) =>
        /\ estado = "succeeded"
        /\ Len(caminho_final) = 7
        /\ caminho_final[1] = <<0, 0>>
        /\ caminho_final[7] = <<3, 3>>
        /\ no_atual[1].g_cost = 6

\* the search of the example grid has returned
C10_Witness ==
    /\ labirinto = criar_labirinto_exemplo
    /\ estado = "succeeded"
    /\ resultado.tipo = "caminho"

\* C11: there is an 8-directional mode whose neighbours add the four diagonal
\* offsets, so on a grid without obstacles whose S and E differ in row and in
\* column the returned path takes a diagonal shortcut and costs strictly less
\* than the 4-directional distance.
C11_AtalhoDiagonal ==
    ( /\ estado = "succeeded"
      /\ Valida(labirinto)
      /\ Simbolos(labirinto) \subseteq {"S", "E", "0"}
      /\ PosS(labirinto)[1] # PosE(labirinto)[1]
      /\ PosS(labirinto)[2] # PosE(labirinto)[2] ) =>
        no_atual[1].g_cost < Distancia(labirinto, {"1"})

\* a pop is about to happen: the loop is running on a non-empty queue
VaiRetirar == estado = "searching" /\ fila_aberta # <<>>

PosicoesNaFila(fila) == { fila[i].position : i \in 1..Len(fila) }

\* C12: no position is expanded twice: the node a pop takes is at a position
\* that is not yet in conjunto_fechado, a position never leaves
\* conjunto_fechado, and no position of conjunto_fechado is in the queue after
\* the neighbours have been relaxed.
C12_SemReexpansao ==
    [][ /\ conjunto_fechado \subseteq conjunto_fechado'
        /\ VaiRetirar =>
              /\ no_atual'[1].position \notin conjunto_fechado
              /\ PosicoesNaFila(fila_aberta') \cap conjunto_fechado' = {}
              /\ conjunto_aberto' \cap conjunto_fechado' = {} ]_vars

\* an expansion has met a neighbour that was already explored, and the queue
\* still holds nodes
C12_Witness ==
    /\ estado = "searching"
    /\ fila_aberta # <<>>
    /\ Cardinality(conjunto_fechado) >= 3
    /\ \E p \in conjunto_fechado \ {no_atual[1].position} :
          Adjacentes(p, no_atual[1].position)

\* C13: the frontier is updated lazily: a relaxation only pushes, so every
\* node that is in the queue before a pass of the loop, other than the node
\* the pass pops, is still in the queue after it; no queued node is replaced
\* or removed by a relaxation.
C13_AtualizacaoPreguicosa ==
    [][ VaiRetirar =>
          \A i \in 1..Len(fila_aberta) :
              \/ fila_aberta[i] = no_atual'[1]
              \/ \E k \in 1..Len(fila_aberta') : fila_aberta'[k] = fila_aberta[i] ]_vars

\* C14: the queue is popped in the order (f_cost, h_cost, insertion number):
\* the popped node has the least f_cost of the queue and, among the queued
\* nodes of that f_cost, the least h_cost.  (Nodes carry no insertion number;
\* the claim implies this statement of its first two keys.)
C14_OrdemDeRetirada ==
    [][ VaiRetirar =>
          \A i \in 1..Len(fila_aberta) :
              \/ no_atual'[1].f_cost < fila_aberta[i].f_cost
              \/ /\ no_atual'[1].f_cost = fila_aberta[i].f_cost
                 /\ no_atual'[1].h_cost <= fila_aberta[i].h_cost ]_vars

\* C15: every search on a (rectangular) grid terminates: from searching it
\* reaches succeeded, with the goal popped and the path returned, or
\* exhausted, with the queue empty and None returned; and a pass of the loop
\* leaves it searching only if the queue was not empty and the popped node is
\* not the goal.
C15_Termina ==
    /\ (estado = "searching" /\ Retangular(labirinto))
          ~> (estado \in {"succeeded", "exhausted"})
    /\ [](estado = "succeeded" =>
            no_atual[1].position = pos_final /\ resultado.tipo = "caminho")
    /\ [](estado = "exhausted" => fila_aberta = <<>> /\ resultado = RetornoNone)
    /\ [][ (estado = "searching" /\ estado' = "searching") =>
              (fila_aberta # <<>> /\ no_atual'[1].position # pos_final) ]_vars

\* a search of at least ten expansions has returned its path
C15_Witness ==
    /\ Retangular(labirinto)
    /\ estado = "succeeded"
    /\ Cardinality(conjunto_fechado) >= 10

EmCaminho(caminho, p) == \E k \in 1..Len(caminho) : caminho[k] = p

\* C16: exibir_labirinto_com_caminho leaves the caller's grid as it was; the
\* displayed copy has the shape of the grid, '*' on the path's cells other
\* than 'S' and 'E', and the original symbol on every other cell.
C16_ExibirMarcaCopia ==
    [][ labirinto_visual' # labirinto_visual =>
          /\ labirinto' = labirinto
          /\ Posicoes(labirinto_visual') = Posicoes(labirinto)
          /\ \A p \in Posicoes(labirinto) :
                Celula(labirinto_visual', p) =
                    IF EmCaminho(resultado.caminho, p)
                       /\ Celula(labirinto, p) \notin {"S", "E"}
                    THEN "*" ELSE Celula(labirinto, p) ]_vars

\* a path with cells between S and E has been displayed on a grid with walls
C16_Witness ==
    /\ labirinto_visual # None
    /\ Cardinality(PosicoesDe(labirinto_visual, "*")) >= 2
    /\ PosicoesDe(labirinto_visual, "S") # {}
    /\ PosicoesDe(labirinto_visual, "E") # {}
    /\ PosicoesDe(labirinto_visual, "1") # {}

\* C17: with a non-empty path and no key ever pressed, idx starts at 0, every
\* tick before the last position moves it forward by exactly one and stays in
\* the loop, the tick at the last position leaves the loop without moving it,
\* and the loop does end, at idx = len(path) - 1.
C17_AvancoPorTempo ==
    /\ (path # <<>>) => (idx = 0 /\ animacao = "running")
    /\ [][ (path # <<>> /\ idx < Len(path) - 1) =>
              (idx' = idx + 1 /\ animacao' = "running") ]_vars
    /\ [][ (path # <<>> /\ idx >= Len(path) - 1) =>
              (idx' = idx /\ animacao' = "ended") ]_vars
    /\ (path # <<>>) ~> (animacao = "ended" /\ idx = Len(path) - 1)

\* the loop has ended by itself at the last of at least three positions
C17_Witness ==
    /\ Len(path) >= 3
    /\ key = ERR
    /\ animacao = "ended"
    /\ idx = Len(path) - 1

\* C18: whenever the loop is at the top of a pass, conjunto_aberto is the set
\* of the positions of the queued nodes, no two queued nodes share a position,
\* and no position is both open and closed.
C18_AbertoEspelhaFila ==
    (estado = "searching") =>
        /\ conjunto_aberto = PosicoesNaFila(fila_aberta)
        /\ Cardinality(conjunto_aberto) = Len(fila_aberta)
        /\ conjunto_aberto \cap conjunto_fechado = {}

\* the loop is at the top of a pass with three nodes queued and two closed
C18_Witness ==
    /\ estado = "searching"
    /\ Len(fila_aberta) >= 3
    /\ Cardinality(conjunto_fechado) >= 2

\* fewest steps from origem to destino through cells whose symbol is not in
\* bloqueio, -1 if there is no such path
DistanciaDe(lab, bloqueio, origem, destino) ==
    Camadas({ p \in Posicoes(lab) : Celula(lab, p) \notin bloqueio },
            {origem}, {origem}, destino, 0)

\* C19: on a rectangular grid of S, E, '0' and '1' cells, the g_cost of the
\* node the last pop took is the length of the shortest 4-directional path
\* from the start to its position through cells other than '1'.
C19_CustoFinalizadoMinimo ==
    ( /\ no_atual # None
      /\ Retangular(labirinto)
      /\ Simbolos(labirinto) \subseteq {"S", "E", "0", "1"} ) =>
        no_atual[1].g_cost =
            DistanciaDe(labirinto, {"1"}, pos_inicial, no_atual[1].position)

\* a node other than the goal has been popped after a neighbour that lies
\* farther from the start was explored: the route through that neighbour,
\* relaxed first, is the dearer one
C19_Witness ==
    /\ Retangular(labirinto)
    /\ Simbolos(labirinto) \subseteq {"S", "E", "0", "1"}
    /\ no_atual # None
    /\ no_atual[1].position # pos_final
    /\ \E q \in conjunto_fechado :
          /\ Adjacentes(q, no_atual[1].position)
          /\ DistanciaDe(labirinto, {"1"}, pos_inicial, q) > no_atual[1].g_cost

\* C20: with a non-empty path and a first delay_ms within 10..1000, whatever
\* keys arrive, idx stays within 0..len(path)-1 and delay_ms within 10..1000;
\* the previous key at index 0 and the next key at the last index leave idx
\* as it is.
C20_IndiceEDelayNosLimites ==
    /\ []( path # <<>> =>
             /\ idx \in 0..(Len(path) - 1)
             /\ delay_ms \in DelayMin..DelayMax )
    /\ [][ (path # <<>> /\ key' \in TeclasAnterior /\ idx = 0) => idx' = 0 ]_vars
    /\ [][ (path # <<>> /\ key' \in TeclasProximo /\ idx = Len(path) - 1) =>
              idx' = idx ]_vars

\* the previous key has arrived with idx at 0 and delay_ms at its least
C20_Witness ==
    /\ Len(path) >= 2
    /\ key \in TeclasAnterior
    /\ idx = 0
    /\ delay_ms = DelayMin

====
